---- MODULE Spec2Model ----
(***************************************************************************)
(* A model of the cacher library: one CacheTable (its items map, its       *)
(* RWMutex, its loader and observer registries), the CacheItem objects it  *)
(* points to, the singleflight gate used by Get, and the goroutines that   *)
(* call the table.  Every goroutine is a small program counter machine     *)
(* whose steps are the critical sections of the Go code: a step ends where *)
(* the code blocks on a lock, runs a caller-supplied callback or loader,   *)
(* or returns.                                                             *)
(***************************************************************************)
EXTENDS Integers, Sequences, FiniteSets, TLC

\* ------------------------------------------------------------------ bounds
NumWorkers == 2
NumKeys == 1
MaxTime == 2
MaxOps == 3
MaxCallbacks == 2

\* --------------------------------------------------------------- constants
NoItem == 0
Unlocked == 0

Workers == 1..NumWorkers
Sweeper == NumWorkers + 1
Threads == 1..(NumWorkers + 1)
Keys == 1..NumKeys
MaxItems == NumKeys + NumWorkers + 2
ItemIds == 1..MaxItems
Spans == {0, 2}
Datas == {"a", "b"}
NullData == "null"
ErrKeyNotFound == "KeyNotFound"
LoadErr == "LoadErr"
CbAdded == "f"
CbDelete == "g"
CbExpire == "h"
CallbackNames == <<CbAdded, CbDelete, CbExpire>>
Names == {"x", "y"}
NoTable == 0
Intervals == {0, 1}
ManyKeys == 1..(NumKeys + 1)

VARIABLES
    now,      \* time.Now(), in ticks
    phase,    \* "init": no table yet; "setup": main configures; "run": goroutines call
    table,    \* the CacheTable's fields
    mu,       \* the CacheTable's RWMutex: the goroutine holding it for writing
    heap,     \* the CacheItem objects, by pointer
    irl,      \* each CacheItem's RWMutex: the goroutines holding it for reading
    calls,    \* the singleflight group: keys with a call in flight
    th,       \* the goroutines
    nops,     \* how many calls the goroutines have made
    addWins,  \* history: per key, how many Add calls returned true
    stable,   \* history: per key, the value committed last with nothing started since
    cache,    \* the package's map from a name to its CacheTable, by pointer
    mutex,    \* the package's RWMutex: who holds it for writing and for reading
    tables,   \* the CacheTable objects made by New and Cache, by pointer
    reg       \* the goroutines' calls of New and Cache

registry == <<cache, mutex, tables, reg>>

vars == <<now, phase, table, mu, heap, irl, calls, th, nops, addWins, stable, registry>>

\* ------------------------------------------------------------------ items
NoCacheItem == [key |-> 0, lifeSpan |-> 0, data |-> NullData, createdOn |-> 0,
                accessedOn |-> 0, accessCount |-> 0, aboutToExpire |-> <<>>]

\* NewCacheItem(key, lifeSpan, data): createdOn = accessedOn = time.Now()
NewCacheItem(k, span, d) ==
    [key |-> k, lifeSpan |-> span, data |-> d, createdOn |-> now,
     accessedOn |-> now, accessCount |-> 0, aboutToExpire |-> <<>>]

Allocated == {i \in ItemIds : heap[i].key # 0}
FreshId == CHOOSE i \in ItemIds \ Allocated : \A j \in ItemIds \ Allocated : i <= j
CanAlloc == ItemIds \ Allocated # {}

\* Go's garbage collector: an item that neither the table nor a goroutine
\* points to is gone.
Collect(H, tab, T) ==
    [i \in ItemIds |->
        IF \/ \E k \in DOMAIN tab.items : tab.items[k] = i
           \/ \E u \in Threads : T[u].item = i
           \/ \E u \in Threads : \E j \in 1..Len(T[u].r) : T[u].r[j] = i
           \/ \E u \in Threads, k \in Keys : T[u].old /\ T[u].view[k] = i
        THEN H[i] ELSE NoCacheItem]

Present(k) == table.items[k] # NoItem

\* A goroutine that has called item.Lock() in KeepAlive and waits for it: Go's
\* RWMutex lets no new reader in while a writer waits.
WriterPending(id) == \E u \in Threads : th[u].pc = "ka_wait" /\ th[u].item = id

\* A goroutine: where it is (pc) in which call (op, key), the item pointer it
\* holds (item), what its last call returned (ret), the callbacks its call has
\* invoked so far, each with its kind and its argument (fired); the locals of the
\* call under way (cbs, ci, span, data, snow, sacc, screated, todo, may, and,
\* when Flush has replaced the map that its loop ranges over, old and the
\* replaced map, view; MostAccessed's count, its pairs p and its result r);
\* and, history only, the value a Get was promised when it was called (exp)
\* and the keys that were in the table when a pass began (entry).
IdleThread == [pc |-> "idle", op |-> "none", key |-> 0, item |-> NoItem,
               ret |-> "none", fired |-> <<>>,
               cbs |-> <<>>, ci |-> 0, span |-> 0, data |-> NullData,
               snow |-> 0, sacc |-> 0, screated |-> 0, todo |-> {}, may |-> {},
               old |-> FALSE, view |-> [k \in Keys |-> NoItem],
               count |-> 0, p |-> <<>>, r |-> <<>>,
               exp |-> "none", entry |-> {}]

\* The goroutines that hold table.RLock() across steps: no writer gets the
\* table's lock meanwhile.
NoReader == \A u \in Threads : th[u].pc # "ma_range"

\* A goroutine's call of New or Cache: where it is (pc), its arguments (fn,
\* name, cleanupInterval), its locals t and ok, and what it returned (ret).
IdleCall == [pc |-> "idle", fn |-> "none", name |-> "none", cleanupInterval |-> 0,
             t |-> NoTable, ok |-> FALSE, ret |-> NoTable]

Init ==
    /\ now = 0
    /\ phase = "init"
    /\ table = [items |-> [k \in Keys |-> NoItem], cleanupInterval |-> 0,
                enableNullData |-> FALSE, enableAutoLoad |-> FALSE,
                loadData |-> FALSE, janitor |-> "none",
                addedItem |-> <<>>, aboutToDeleteItem |-> <<>>]
    /\ mu = Unlocked
    /\ heap = [i \in ItemIds |-> NoCacheItem]
    /\ irl = [i \in ItemIds |-> {}]
    /\ calls = [k \in Keys |-> FALSE]
    /\ th = [t \in Threads |-> IdleThread]
    /\ nops = 0
    /\ addWins = [k \in Keys |-> 0]
    /\ stable = [k \in Keys |-> "none"]
    /\ cache = [n \in Names |-> NoTable]
    /\ mutex = [writer |-> Unlocked, readers |-> {}]
    /\ tables = <<>>
    /\ reg = [t \in Workers |-> IdleCall]


\* A table that holds some of the keys of ManyKeys, none accessed yet, with the
\* goroutines about to call.
InitAccess ==
    /\ now = 0
    /\ phase = "run"
    /\ mu = Unlocked
    /\ irl = [i \in ItemIds |-> {}]
    /\ calls = [k \in ManyKeys |-> FALSE]
    /\ th = [t \in Threads |-> IdleThread]
    /\ nops = 0
    /\ addWins = [k \in ManyKeys |-> 0]
    /\ stable = [k \in ManyKeys |-> "none"]
    /\ cache = [n \in Names |-> NoTable]
    /\ mutex = [writer |-> Unlocked, readers |-> {}]
    /\ tables = <<>>
    /\ reg = [t \in Workers |-> IdleCall]
    /\ \E S \in SUBSET ManyKeys :
          /\ table = [items |-> [k \in ManyKeys |-> IF k \in S THEN k ELSE NoItem],
                      cleanupInterval |-> 0,
                      enableNullData |-> FALSE, enableAutoLoad |-> FALSE,
                      loadData |-> FALSE, janitor |-> "none",
                      addedItem |-> <<>>, aboutToDeleteItem |-> <<>>]
          /\ heap = [i \in ItemIds |->
                       IF i \in S
                       THEN [key |-> i, lifeSpan |-> 0, data |-> "a",
                             createdOn |-> 0, accessedOn |-> 0,
                             accessCount |-> 0, aboutToExpire |-> <<>>]
                       ELSE NoCacheItem]

\* ---------------------------------------------------------------- helpers
\* The goroutines that are inside ExpirationCheck's range loop over the map
\* that is table.items now.
Iterating(T, u) == T[u].op = "ExpirationCheck" /\ T[u].pc # "idle" /\ ~T[u].old

\* History only: something happened to k, so nothing is promised any more to
\* the Get calls on k that are under way.
VoidExp(T, k) ==
    [u \in Threads |-> IF T[u].key = k THEN [T[u] EXCEPT !.exp = "none"] ELSE T[u]]

\* Go's range over a map while others change it: an entry removed before it is
\* reached is never produced; an entry created during the iteration may be
\* produced or skipped.  todo: keys the loop must still produce; may: keys it may.
NoteInsert(T, k, was) ==
    [u \in Threads |->
        IF Iterating(T, u) /\ ~was THEN [T[u] EXCEPT !.may = @ \cup {k}] ELSE T[u]]

NoteDelete(T, k) ==
    [u \in Threads |->
        IF Iterating(T, u) THEN [T[u] EXCEPT !.may = @ \ {k}, !.todo = @ \ {k}] ELSE T[u]]

\* the locals of a call are dead once it returns
Clean(r) ==
    [r EXCEPT !.cbs = <<>>, !.ci = 0, !.span = 0, !.data = NullData, !.snow = 0,
              !.sacc = 0, !.screated = 0, !.todo = {}, !.may = {},
              !.old = FALSE, !.view = [k \in Keys |-> NoItem],
              !.count = 0, !.p = <<>>, !.entry = {}]

\* t's call returns r
Return(T, t, r) == [T EXCEPT ![t] = [Clean(T[t]) EXCEPT !.pc = "idle", !.ret = r]]

\* t's pass goes on to the next iteration of its loop
Continue(T, t) ==
    [T EXCEPT ![t] = [T[t] EXCEPT !.pc = "sw_iter", !.key = 0, !.item = NoItem,
                                  !.cbs = <<>>, !.ci = 0, !.span = 0, !.sacc = 0,
                                  !.screated = 0]]

\* t calls an operation
Begin(t, name, k) ==
    [Clean(th[t]) EXCEPT !.op = name, !.key = k, !.item = NoItem, !.ret = "none",
                         !.fired = <<>>, !.r = <<>>, !.exp = "none"]

CanCall(t) == phase = "run" /\ th[t].pc = "idle" /\ nops < MaxOps

\* an expiry counted from the last access
ExpiredByAccess(n, it) == n - it.accessedOn >= it.lifeSpan

\* now.Sub(createdOn) >= lifeSpan
Expired(n, it) == n - it.createdOn >= it.lifeSpan

\* a pass that takes no item for recently accessed
NeverRecentlyAccessed(n, it) == FALSE

\* now.Sub(accessedOn) <= lifeSpan*2/3
RecentlyAccessed(n, it) == n - it.accessedOn <= (it.lifeSpan * 2) \div 3

\* ------------------------------------------------------------------ setup
\* New(table, cleanupInterval): the table is created; no janitor is started.
New(ci) ==
    /\ phase = "init"
    /\ phase' = "setup"
    /\ table' = [table EXCEPT !.cleanupInterval = ci]
    /\ UNCHANGED <<registry, nops, now, mu, heap, irl, calls, th, addWins, stable>>

SetDataLoader ==
    /\ phase = "setup"
    /\ ~table.loadData
    /\ table' = [table EXCEPT !.enableAutoLoad = TRUE, !.loadData = TRUE]
    /\ UNCHANGED <<registry, nops, now, phase, mu, heap, irl, calls, th, addWins, stable>>

EnableNullData(b) ==
    /\ phase = "setup"
    /\ table.enableNullData # b
    /\ table' = [table EXCEPT !.enableNullData = b]
    /\ UNCHANGED <<registry, nops, now, phase, mu, heap, irl, calls, th, addWins, stable>>

AddAddedItemCallback(f) ==
    /\ phase = "setup"
    /\ table' = [table EXCEPT !.addedItem = Append(@, f)]
    /\ UNCHANGED <<registry, nops, now, phase, mu, heap, irl, calls, th, addWins, stable>>

AddAboutToDeleteItemCallback(f) ==
    /\ phase = "setup"
    /\ table' = [table EXCEPT !.aboutToDeleteItem = Append(@, f)]
    /\ UNCHANGED <<registry, nops, now, phase, mu, heap, irl, calls, th, addWins, stable>>

\* main fills the table before it starts the goroutines: table.Set(k, span, d)
\* with nothing else running
Populate(k, span, d) ==
    /\ phase = "setup"
    /\ ~Present(k)
    /\ table' = [table EXCEPT !.items[k] = FreshId]
    /\ heap' = [heap EXCEPT ![FreshId] = NewCacheItem(k, span, d)]
    /\ stable' = [stable EXCEPT ![k] = d]
    /\ UNCHANGED <<registry, nops, now, phase, mu, irl, calls, th, addWins>>

\* main starts the goroutines
Start ==
    /\ phase = "setup"
    /\ phase' = "run"
    /\ UNCHANGED <<registry, nops, now, table, mu, heap, irl, calls, th, addWins, stable>>

\* time passes; history: a committed entry that expires is promised no more
Tick ==
    /\ phase = "run"
    /\ now < MaxTime
    /\ now' = now + 1
    /\ LET gone == {k \in Keys : /\ Present(k)
                                 /\ heap[table.items[k]].lifeSpan > 0
                                 /\ now + 1 - heap[table.items[k]].createdOn
                                        >= heap[table.items[k]].lifeSpan}
       IN /\ stable' = [k \in Keys |-> IF k \in gone THEN "none" ELSE stable[k]]
          /\ th' = [u \in Threads |->
                       IF th[u].key \in gone THEN [th[u] EXCEPT !.exp = "none"] ELSE th[u]]
    /\ UNCHANGED <<registry, nops, phase, table, mu, heap, irl, calls, addWins>>

\* -------------------------------------------------------------- admission
\* singleflight: the leader's call is over; it and every waiter on the key get
\* the same (value, error), and the call record is removed.
FlightDone(t, T, r, id) ==
    [u \in Threads |->
        IF u = t \/ (T[u].pc = "sf_wait" /\ T[u].key = T[t].key)
        THEN [Clean(T[u]) EXCEPT !.pc = "idle", !.ret = r, !.item = id]
        ELSE T[u]]

\* What follows addInternal in each caller: Set, Add and Get's loader closure
\* unlock the table and return; ExpirationCheck goes on with its loop, locked.
AddedDone(t, T) ==
    CASE T[t].op = "Set" ->
            /\ th' = Return(T, t, "ok")
            /\ mu' = Unlocked
            /\ UNCHANGED <<registry, calls, addWins>>
      [] T[t].op = "Add" ->
            /\ th' = Return(T, t, "true")
            /\ mu' = Unlocked
            /\ addWins' = [addWins EXCEPT ![T[t].key] = @ + 1]
            /\ UNCHANGED calls
      [] T[t].op = "Get" ->
            /\ th' = FlightDone(t, T, "ok", T[t].item)
            /\ mu' = Unlocked
            /\ calls' = [calls EXCEPT ![T[t].key] = FALSE]
            /\ UNCHANGED addWins
      [] OTHER ->
            /\ th' = Continue(T, t)
            /\ mu' = t
            /\ UNCHANGED <<registry, calls, addWins>>

\* addInternal(item), entered with the table locked by t: the item is stored and
\* the added callbacks run, the table still locked.
AddInternal(t, T, H) ==
    LET k == T[t].key
        id == T[t].item
        T1 == VoidExp(NoteInsert(T, k, Present(k)), k)
        cbs == table.addedItem
    IN /\ table' = [table EXCEPT !.items[k] = id]
       /\ stable' = [stable EXCEPT ![k] = H[id].data]
       /\ IF cbs = <<>>
          THEN AddedDone(t, T1)
          ELSE /\ th' = [T1 EXCEPT ![t].pc = "added_cb", ![t].cbs = cbs, ![t].ci = 1,
                                   ![t].fired = Append(@, <<"added", cbs[1], id>>)]
               /\ mu' = t
               /\ UNCHANGED <<registry, calls, addWins>>
       /\ heap' = Collect(H, table', th')

\* an addInternal that leaves its loop after the first callback
AddedCallbackReturnOnce(t) ==
    /\ th[t].pc = "added_cb"
    /\ AddedDone(t, th)
    /\ heap' = Collect(heap, table, th')
    /\ UNCHANGED <<registry, nops, now, phase, table, irl, stable>>

\* an added callback returns: the next one runs, or addInternal returns
AddedCallbackReturn(t) ==
    /\ th[t].pc = "added_cb"
    /\ IF th[t].ci < Len(th[t].cbs)
       THEN /\ th' = [th EXCEPT ![t].ci = @ + 1,
                                ![t].fired = Append(@, <<"added", th[t].cbs[th[t].ci + 1],
                                                           th[t].item>>)]
            /\ UNCHANGED <<registry, mu, calls, addWins>>
       ELSE AddedDone(t, th)
    /\ heap' = Collect(heap, table, th')
    /\ UNCHANGED <<registry, nops, now, phase, table, irl, stable>>

\* Set(key, lifeSpan, data): the item is built before the table is locked
CallSet(t, k, span, d) ==
    /\ CanCall(t)
    /\ nops' = nops + 1
    /\ th' = VoidExp([th EXCEPT ![t] = [Begin(t, "Set", k) EXCEPT !.pc = "set_lock",
                                                                 !.item = FreshId]], k)
    /\ stable' = [stable EXCEPT ![k] = "none"]
    /\ heap' = Collect([heap EXCEPT ![FreshId] = NewCacheItem(k, span, d)], table, th')
    /\ UNCHANGED <<registry, now, phase, table, mu, irl, calls, addWins>>

SetLock(t) ==
    /\ th[t].pc = "set_lock"
    /\ mu = Unlocked /\ NoReader
    /\ AddInternal(t, th, heap)
    /\ UNCHANGED <<registry, nops, now, phase, irl>>

\* Add without its look at table.items
CallAddNoCheck(t, k, span, d) ==
    /\ CanCall(t)
    /\ mu = Unlocked /\ NoReader
    /\ nops' = nops + 1
    /\ AddInternal(t, [th EXCEPT ![t] = [Begin(t, "Add", k) EXCEPT !.item = FreshId]],
                   [heap EXCEPT ![FreshId] = NewCacheItem(k, span, d)])
    /\ UNCHANGED <<registry, now, phase, irl>>

\* Add(key, lifeSpan, data): table.Lock(); the key is there: Unlock, return
\* false; or the item is built and added
CallAdd(t, k, span, d) ==
    /\ CanCall(t)
    /\ mu = Unlocked /\ NoReader
    /\ nops' = nops + 1
    /\ IF Present(k)
       THEN /\ th' = Return([th EXCEPT ![t] = Begin(t, "Add", k)], t, "false")
            /\ heap' = Collect(heap, table, th')
            /\ UNCHANGED <<registry, table, mu, calls, addWins, stable>>
       ELSE AddInternal(t, [th EXCEPT ![t] = [Begin(t, "Add", k) EXCEPT !.item = FreshId]],
                        [heap EXCEPT ![FreshId] = NewCacheItem(k, span, d)])
    /\ UNCHANGED <<registry, now, phase, irl>>

\* --------------------------------------------------------------- deletion
\* What follows deleteInternal in each caller: Delete unlocks the table (its
\* deferred Unlock) and returns; ExpirationCheck goes on with its loop, locked.
DeleteReturn(t, T, r) ==
    IF T[t].op = "Delete"
    THEN /\ th' = Return(T, t, r)
         /\ mu' = Unlocked
    ELSE /\ th' = Continue(T, t)
         /\ mu' = t

\* deleteInternal that reports success for a key that is not there
DeleteInternalNoCheck(t, T) ==
    LET k == T[t].key
        cbs == table.aboutToDeleteItem
    IN IF ~Present(k)
       THEN /\ DeleteReturn(t, [T EXCEPT ![t].item = NoItem], "ok")
            /\ UNCHANGED stable
       ELSE /\ mu' = Unlocked
            /\ stable' = [stable EXCEPT ![k] = "none"]
            /\ th' = VoidExp([T EXCEPT
                     ![t].item = table.items[k],
                     ![t].cbs = cbs,
                     ![t].ci = IF cbs = <<>> THEN 0 ELSE 1,
                     ![t].pc = IF cbs = <<>> THEN "del_rlock" ELSE "del_cb",
                     ![t].fired = IF cbs = <<>> THEN @
                                  ELSE Append(@, <<"delete", cbs[1], table.items[k]>>)], k)

\* deleteInternal(key) up to its table.Unlock(), entered with the table locked
\* by t: the lookup, the snapshot of aboutToDeleteItem, the unlock; the first
\* about-to-delete callback is running.
DeleteInternal(t, T) ==
    LET k == T[t].key
        cbs == table.aboutToDeleteItem
    IN IF ~Present(k)
       THEN /\ DeleteReturn(t, [T EXCEPT ![t].item = NoItem], ErrKeyNotFound)
            /\ UNCHANGED stable
       ELSE /\ mu' = Unlocked
            /\ stable' = [stable EXCEPT ![k] = "none"]
            /\ th' = VoidExp([T EXCEPT
                     ![t].item = table.items[k],
                     ![t].cbs = cbs,
                     ![t].ci = IF cbs = <<>> THEN 0 ELSE 1,
                     ![t].pc = IF cbs = <<>> THEN "del_rlock" ELSE "del_cb",
                     ![t].fired = IF cbs = <<>> THEN @
                                  ELSE Append(@, <<"delete", cbs[1], table.items[k]>>)], k)

\* Delete(key): table.Lock(); defer table.Unlock(); deleteInternal(key)
CallDelete(t, k) ==
    /\ CanCall(t)
    /\ mu = Unlocked /\ NoReader
    /\ nops' = nops + 1
    /\ DeleteInternal(t, [th EXCEPT ![t] = Begin(t, "Delete", k)])
    /\ heap' = Collect(heap, table, th')
    /\ UNCHANGED <<registry, now, phase, table, irl, calls, addWins>>

\* an about-to-delete callback returns: the next one runs, or r.RLock() is next
DelCallbackReturn(t) ==
    /\ th[t].pc = "del_cb"
    /\ th' = IF th[t].ci < Len(th[t].cbs)
             THEN [th EXCEPT ![t].ci = @ + 1,
                             ![t].fired = Append(@, <<"delete", th[t].cbs[th[t].ci + 1],
                                                        th[t].item>>)]
             ELSE [th EXCEPT ![t].pc = "del_rlock", ![t].cbs = <<>>, ![t].ci = 0]
    /\ UNCHANGED <<registry, nops, now, phase, table, mu, heap, irl, calls, addWins, stable>>

\* r.RLock(), kept until deleteInternal returns; the first about-to-expire
\* callback is running
DelRLock(t) ==
    /\ th[t].pc = "del_rlock"
    /\ ~WriterPending(th[t].item)
    /\ irl' = [irl EXCEPT ![th[t].item] = @ \cup {t}]
    /\ LET cbs == heap[th[t].item].aboutToExpire
       IN th' = [th EXCEPT
                 ![t].cbs = cbs,
                 ![t].ci = IF cbs = <<>> THEN 0 ELSE 1,
                 ![t].pc = IF cbs = <<>> THEN "del_relock" ELSE "exp_cb",
                 ![t].fired = IF cbs = <<>> THEN @
                              ELSE Append(@, <<"expire", cbs[1], th[t].key>>)]
    /\ UNCHANGED <<registry, nops, now, phase, table, mu, heap, calls, addWins, stable>>

\* an about-to-expire callback returns: the next one runs, or table.Lock() is next
ExpCallbackReturn(t) ==
    /\ th[t].pc = "exp_cb"
    /\ th' = IF th[t].ci < Len(th[t].cbs)
             THEN [th EXCEPT ![t].ci = @ + 1,
                             ![t].fired = Append(@, <<"expire", th[t].cbs[th[t].ci + 1],
                                                        th[t].key>>)]
             ELSE [th EXCEPT ![t].pc = "del_relock", ![t].cbs = <<>>, ![t].ci = 0]
    /\ UNCHANGED <<registry, nops, now, phase, table, mu, heap, irl, calls, addWins, stable>>

\* table.Lock(); delete(table.items, key); return r, nil (and r.RUnlock())
DelRelock(t) ==
    /\ th[t].pc = "del_relock"
    /\ mu = Unlocked /\ NoReader
    /\ table' = [table EXCEPT !.items[th[t].key] = NoItem]
    /\ irl' = [irl EXCEPT ![th[t].item] = @ \ {t}]
    /\ DeleteReturn(t, NoteDelete(th, th[t].key), "ok")
    /\ heap' = Collect(heap, table', th')
    /\ UNCHANGED <<registry, nops, now, phase, calls, addWins, stable>>

\* ---------------------------------------------------- callback registries
SetCallbackOps == {"SetAddedItemCallback", "SetAboutToDeleteItemCallback"}

\* the field of the table that a Set...Callback method works on
Registry(name) == IF name = "SetAddedItemCallback" THEN "addedItem" ELSE "aboutToDeleteItem"

\* What len(table.addedItem) > 0, read with no lock, can be: the truth, or,
\* while another goroutine is inside a call that writes the field, either value.
SeenFull(t, name) ==
    IF \E u \in Threads \ {t} : th[u].op = name /\ th[u].pc # "idle"
    THEN BOOLEAN
    ELSE {Len(table[Registry(name)]) > 0}

\* SetAddedItemCallback(f), SetAboutToDeleteItemCallback(f): the length is
\* read, with no lock; Remove...Callbacks() is next, or table.Lock()
CallSetCallback(t, name, f) ==
    /\ CanCall(t)
    /\ nops' = nops + 1
    /\ \E full \in SeenFull(t, name) :
          th' = [th EXCEPT ![t] = [Begin(t, name, 0) EXCEPT
                                      !.cbs = <<f>>,
                                      !.pc = IF full THEN "sc_remove" ELSE "sc_lock"]]
    /\ heap' = Collect(heap, table, th')
    /\ UNCHANGED <<registry, now, phase, table, mu, irl, calls, addWins, stable>>

\* RemoveAddedItemCallbacks(), RemoveAboutToDeleteItemCallback(), called by
\* Set...Callback: table.Lock(); the registry = nil; table.Unlock()
SetCallbackRemove(t) ==
    /\ th[t].pc = "sc_remove"
    /\ mu = Unlocked /\ NoReader
    /\ table' = [table EXCEPT ![Registry(th[t].op)] = <<>>]
    /\ th' = [th EXCEPT ![t].pc = "sc_lock"]
    /\ UNCHANGED <<registry, nops, now, phase, mu, heap, irl, calls, addWins, stable>>

\* table.Lock(); defer table.Unlock(); the registry = append(the registry, f)
SetCallbackLock(t) ==
    /\ th[t].pc = "sc_lock"
    /\ mu = Unlocked /\ NoReader
    /\ table' = [table EXCEPT ![Registry(th[t].op)] = Append(@, th[t].cbs[1])]
    /\ th' = Return(th, t, "ok")
    /\ UNCHANGED <<registry, nops, now, phase, mu, heap, irl, calls, addWins, stable>>

\* ------------------------------------------------------------------ flush
\* a pass whose loop ranges over table.items goes on ranging over the map
\* that Flush replaces
NoteFlush(T) ==
    [u \in Threads |->
        IF Iterating(T, u) THEN [T[u] EXCEPT !.old = TRUE, !.view = table.items] ELSE T[u]]

\* a Flush that leaves the cleanup interval as it is
CallFlushKeepsInterval(t) ==
    /\ CanCall(t)
    /\ mu = Unlocked /\ NoReader
    /\ nops' = nops + 1
    /\ table' = [table EXCEPT !.items = [k \in Keys |-> NoItem]]
    /\ stable' = [k \in Keys |-> "none"]
    /\ th' = [u \in Threads |->
                [Return(NoteFlush([th EXCEPT ![t] = Begin(t, "Flush", 0)]), t, "ok")[u]
                    EXCEPT !.exp = "none"]]
    /\ heap' = Collect(heap, table', th')
    /\ UNCHANGED <<registry, now, phase, mu, irl, calls, addWins>>

\* Flush(): table.Lock(); defer table.Unlock(); table.items = make(map);
\* table.cleanupInterval = 0
CallFlush(t) ==
    /\ CanCall(t)
    /\ mu = Unlocked /\ NoReader
    /\ nops' = nops + 1
    /\ table' = [table EXCEPT !.items = [k \in Keys |-> NoItem], !.cleanupInterval = 0]
    /\ stable' = [k \in Keys |-> "none"]
    /\ th' = [u \in Threads |->
                [Return(NoteFlush([th EXCEPT ![t] = Begin(t, "Flush", 0)]), t, "ok")[u]
                    EXCEPT !.exp = "none"]]
    /\ heap' = Collect(heap, table', th')
    /\ UNCHANGED <<registry, now, phase, mu, irl, calls, addWins>>

\* Count(): len(table.items)
Count == Cardinality({k \in DOMAIN table.items : table.items[k] # NoItem})

\* ----------------------------------------------------------- MostAccessed
\* MostAccessed(count): table.RLock(); p := make(CacheItemPairList,
\* len(table.items)); the range over table.items begins
CallMostAccessed(t, count) ==
    /\ CanCall(t)
    /\ mu = Unlocked
    /\ nops' = nops + 1
    /\ th' = [th EXCEPT ![t] =
                [Begin(t, "MostAccessed", 0) EXCEPT
                    !.pc = "ma_range", !.count = count,
                    !.todo = {k \in DOMAIN table.items : table.items[k] # NoItem}]]
    /\ heap' = Collect(heap, table, th')
    /\ UNCHANGED <<registry, now, phase, table, mu, irl, calls, addWins, stable>>

\* p[i] = CacheItemPair{k, v.accessCount}; i++, for the key that the range
\* yields next; v.accessCount is read without the item's lock
MostAccessedRange(t) ==
    /\ th[t].pc = "ma_range"
    /\ \E k \in th[t].todo :
          th' = [th EXCEPT
                   ![t].p = Append(@, [Key |-> k,
                                       AccessCount |-> heap[table.items[k]].accessCount]),
                   ![t].todo = @ \ {k}]
    /\ UNCHANGED <<registry, nops, now, phase, table, mu, heap, irl, calls, addWins,
                   stable>>

\* a Less that puts the least accessed first
LessAscending(p, i, j) == p[i].AccessCount < p[j].AccessCount

\* CacheItemPairList.Less
Less(p, i, j) == p[i].AccessCount > p[j].AccessCount

\* sort.Sort(p): some reordering of p in which no pair is Less than one before
\* it; the sort is not stable
Sorted(p) ==
    {q \in {[i \in 1..Len(p) |-> p[f[i]]] : f \in Permutations(1..Len(p))} :
        \A i \in 1..Len(q), j \in 1..Len(q) : i < j => ~Less(q, j, i)}

\* the loop over the sorted pairs: the first count of them, each looked up in
\* table.items again and appended to r when it is there
Chosen(q, count) ==
    LET n == IF count < Len(q) THEN (IF count < 0 THEN 0 ELSE count) ELSE Len(q)
        items == [i \in 1..n |-> table.items[q[i].Key]]
    IN SelectSeq(items, LAMBDA id : id # NoItem)

\* sort.Sort(p), the loop that builds r, return r; table.RUnlock()
MostAccessedReturn(t) ==
    /\ th[t].pc = "ma_range"
    /\ th[t].todo = {}
    /\ \E q \in Sorted(th[t].p) :
          th' = Return([th EXCEPT ![t].r = Chosen(q, th[t].count)], t, "ok")
    /\ heap' = Collect(heap, table, th')
    /\ UNCHANGED <<registry, nops, now, phase, table, mu, irl, calls, addWins, stable>>

\* ----------------------------------------------------------------- lookup
\* a Get that calls its loader outside singleSetCache.Do
GetMissNoGate(T, t) ==
    IF table.loadData
    THEN [T EXCEPT ![t].pc = "loading"]
    ELSE Return(T, t, ErrKeyNotFound)

\* Get's miss: with a loader, the call goes through singleSetCache.Do; with
\* none, ErrKeyNotFound
GetMiss(T, t) ==
    IF table.loadData
    THEN [T EXCEPT ![t].pc = "sf_enter"]
    ELSE Return(T, t, ErrKeyNotFound)

\* a Get that returns the item it finds without r.KeepAlive()
CallGetNoKeepAlive(t, k) ==
    /\ CanCall(t)
    /\ mu = Unlocked
    /\ nops' = nops + 1
    /\ LET T == [th EXCEPT ![t] = [Begin(t, "Get", k) EXCEPT !.exp = stable[k]]]
       IN th' = IF Present(k)
                THEN Return([T EXCEPT ![t].item = table.items[k]], t, "ok")
                ELSE GetMiss(T, t)
    /\ heap' = Collect(heap, table, th')
    /\ UNCHANGED <<registry, now, phase, table, mu, irl, calls, addWins, stable>>

\* Get(key): table.RLock(); r, ok := table.items[key]; loadData :=
\* table.loadData; table.RUnlock(); then the hit, the loader, or ErrKeyNotFound
CallGet(t, k) ==
    /\ CanCall(t)
    /\ mu = Unlocked
    /\ nops' = nops + 1
    /\ LET T == [th EXCEPT ![t] = [Begin(t, "Get", k) EXCEPT !.exp = stable[k]]]
       IN th' = IF Present(k)
                THEN [T EXCEPT ![t].pc = "ka_call", ![t].item = table.items[k]]
                ELSE GetMiss(T, t)
    /\ heap' = Collect(heap, table, th')
    /\ UNCHANGED <<registry, now, phase, table, mu, irl, calls, addWins, stable>>

\* an Exists that goes to the loader for a key that is not there
CallExistsLoads(t, k) ==
    /\ CanCall(t)
    /\ mu = Unlocked
    /\ nops' = nops + 1
    /\ LET T == [th EXCEPT ![t] = Begin(t, "Exists", k)]
       IN th' = IF Present(k) THEN Return(T, t, "true") ELSE GetMiss(T, t)
    /\ heap' = Collect(heap, table, th')
    /\ UNCHANGED <<registry, now, phase, table, mu, irl, calls, addWins, stable>>

\* Exists(key): table.RLock(); defer table.RUnlock(); _, ok := table.items[key];
\* return ok
CallExists(t, k) ==
    /\ CanCall(t)
    /\ mu = Unlocked
    /\ nops' = nops + 1
    /\ th' = Return([th EXCEPT ![t] = Begin(t, "Exists", k)], t,
                    IF Present(k) THEN "true" ELSE "false")
    /\ heap' = Collect(heap, table, th')
    /\ UNCHANGED <<registry, now, phase, table, mu, irl, calls, addWins, stable>>

\* item.KeepAlive() on the item a goroutine holds from its last call
CallKeepAlive(t) ==
    /\ CanCall(t)
    /\ nops' = nops + 1
    /\ th[t].item # NoItem
    /\ th' = [th EXCEPT ![t] = [Begin(t, "KeepAlive", th[t].key) EXCEPT
                                   !.pc = "ka_call", !.item = th[t].item]]
    /\ UNCHANGED <<registry, now, phase, table, mu, heap, irl, calls, addWins, stable>>

\* KeepAlive: item.Lock() is called and waits for the readers to leave
KaRequest(t) ==
    /\ th[t].pc = "ka_call"
    /\ th' = [th EXCEPT ![t].pc = "ka_wait"]
    /\ UNCHANGED <<registry, nops, now, phase, table, mu, heap, irl, calls, addWins, stable>>

\* KeepAlive: accessedOn = time.Now(); accessCount++; item.Unlock()
KaAcquire(t) ==
    /\ th[t].pc = "ka_wait"
    /\ irl[th[t].item] = {}
    /\ heap' = [heap EXCEPT ![th[t].item].accessedOn = now,
                            ![th[t].item].accessCount = @ + 1]
    /\ th' = Return(th, t, "ok")
    /\ UNCHANGED <<registry, nops, now, phase, table, mu, irl, calls, addWins, stable>>

\* singleSetCache.Do(key, fn): join the call in flight, or become its leader
\* and run fn, whose first act is loadData(key)
SfEnter(t) ==
    /\ th[t].pc = "sf_enter"
    /\ IF calls[th[t].key]
       THEN /\ th' = [th EXCEPT ![t].pc = "sf_wait"]
            /\ UNCHANGED calls
       ELSE /\ th' = [th EXCEPT ![t].pc = "loading"]
            /\ calls' = [calls EXCEPT ![th[t].key] = TRUE]
    /\ UNCHANGED <<registry, nops, now, phase, table, mu, heap, irl, addWins, stable>>

\* a closure that never gives up on a loader error
LoadFailsNever(err) == FALSE

\* a closure that gives up on every loader error
LoadFailsAlways(err) == err

\* if err1 != nil && !table.enableNullData
LoadFails(err) == err /\ ~table.enableNullData

\* loadData(key) returns (d, span, err) to Get's closure: the error is returned,
\* or the item is built
LoaderReturn(t, d, span, err) ==
    /\ th[t].pc = "loading"
    /\ IF LoadFails(err)
       THEN /\ th' = FlightDone(t, th, LoadErr, NoItem)
            /\ calls' = [calls EXCEPT ![th[t].key] = FALSE]
            /\ UNCHANGED heap
       ELSE /\ th' = [th EXCEPT ![t].pc = "ld_lock", ![t].item = FreshId]
            /\ heap' = [heap EXCEPT ![FreshId] =
                           NewCacheItem(th[t].key, span, d)]
            /\ UNCHANGED calls
    /\ UNCHANGED <<registry, nops, now, phase, table, mu, irl, addWins, stable>>

\* table.Lock(); table.addInternal(item); table.Unlock(); return item, nil
LdLock(t) ==
    /\ th[t].pc = "ld_lock"
    /\ mu = Unlocked /\ NoReader
    /\ AddInternal(t, th, heap)
    /\ UNCHANGED <<registry, nops, now, phase, irl>>

\* ------------------------------------------------------- expiration pass
\* ExpirationCheck(): table.Lock(); now := time.Now(); the range over
\* table.items begins
CallExpirationCheck(t) ==
    /\ CanCall(t)
    /\ mu = Unlocked /\ NoReader
    /\ nops' = nops + 1
    /\ mu' = t
    /\ th' = [th EXCEPT ![t] = [Begin(t, "ExpirationCheck", 0) EXCEPT
                                   !.pc = "sw_iter", !.snow = now,
                                   !.todo = {k \in Keys : Present(k)},
                                   !.entry = {k \in Keys : Present(k)}]]
    /\ heap' = Collect(heap, table, th')
    /\ UNCHANGED <<registry, now, phase, table, irl, calls, addWins, stable>>

\* the range produces its next (key, item)
SwNext(t, k) ==
    /\ th[t].pc = "sw_iter"
    /\ k \in th[t].todo \cup th[t].may
    /\ th' = [th EXCEPT ![t].pc = "sw_snap", ![t].key = k,
                        ![t].item = IF th[t].old THEN th[t].view[k] ELSE table.items[k],
                        ![t].todo = @ \ {k}, ![t].may = @ \ {k}]
    /\ UNCHANGED <<registry, nops, now, phase, table, mu, heap, irl, calls, addWins, stable>>

\* the range is over; table.Unlock()
SwDone(t) ==
    /\ th[t].pc = "sw_iter"
    /\ th[t].todo = {}
    /\ mu' = Unlocked
    /\ th' = Return(th, t, "ok")
    /\ UNCHANGED <<registry, nops, now, phase, table, heap, irl, calls, addWins, stable>>

\* item.RLock(); lifeSpan, accessedOn, createdOn are read; item.RUnlock(); then
\* the loop's decision for this item
SwSnap(t) ==
    /\ th[t].pc = "sw_snap"
    /\ ~WriterPending(th[t].item)
    /\ LET it == heap[th[t].item]
           T == [th EXCEPT ![t].sacc = it.accessedOn, ![t].screated = it.createdOn,
                           ![t].span = it.lifeSpan]
       IN IF it.lifeSpan = 0 \/ ~Expired(th[t].snow, it)
          THEN /\ th' = Continue(T, t)
               /\ UNCHANGED <<registry, mu, stable>>
          ELSE IF table.enableAutoLoad /\ RecentlyAccessed(th[t].snow, it)
          THEN /\ th' = [T EXCEPT ![t].pc = "sw_loading"]
               /\ UNCHANGED <<registry, mu, stable>>
          ELSE DeleteInternal(t, T)
    /\ heap' = Collect(heap, table, th')
    /\ UNCHANGED <<registry, nops, now, phase, table, irl, calls, addWins>>

\* table.loadData(key) returns (d, span, err) to the pass, the table locked:
\* a fresh item replaces the old one, or the old one is deleted
SwLoaderReturn(t, d, span, err) ==
    /\ th[t].pc = "sw_loading"
    /\ IF ~err
       THEN AddInternal(t, [th EXCEPT ![t].item = FreshId],
                        [heap EXCEPT ![FreshId] = NewCacheItem(th[t].key, span, d)])
       ELSE /\ DeleteInternal(t, th)
            /\ UNCHANGED <<registry, table, heap, calls, addWins>>
    /\ UNCHANGED <<registry, nops, now, phase, irl>>

\* item.AddAboutToExpireCallback(f) on the item a goroutine holds
AddAboutToExpireCallback(t, f) ==
    /\ phase = "run"
    /\ th[t].pc = "idle"
    /\ th[t].item # NoItem
    /\ irl[th[t].item] = {}
    /\ ~WriterPending(th[t].item)
    /\ heap' = [heap EXCEPT ![th[t].item].aboutToExpire = Append(@, f)]
    /\ UNCHANGED <<registry, nops, now, phase, table, mu, irl, calls, th, addWins, stable>>

\* ---------------------------------------------------------------- janitor
\* runJanitor(c, ci): c.janitor = j; go j.Run(c).  table.janitor is "none" for a
\* nil pointer, "run" while j.Run is in its loop and "done" when it has returned.
runJanitor ==
    /\ phase = "setup"
    /\ table.janitor = "none"
    /\ table' = [table EXCEPT !.janitor = "run"]
    /\ UNCHANGED <<registry, nops, now, phase, mu, heap, irl, calls, th, addWins, stable>>

\* stopJanitor(c): c.janitor.stop <- true, a send on a channel with no buffer;
\* with c.janitor nil the call panics
stopJanitor(t) ==
    /\ CanCall(t)
    /\ nops' = nops + 1
    /\ th' = IF table.janitor = "none"
             THEN Return([th EXCEPT ![t] = Begin(t, "stopJanitor", 0)], t, "panic")
             ELSE [th EXCEPT ![t] = [Begin(t, "stopJanitor", 0) EXCEPT !.pc = "stop_send"]]
    /\ heap' = Collect(heap, table, th')
    /\ UNCHANGED <<registry, now, phase, table, mu, irl, calls, addWins, stable>>

\* j.Run, case <-j.stop: the worker, back in its select, receives what t
\* sends; ticker.Stop(); return.  The send of t is over.
RunStop(t) ==
    /\ th[t].pc = "stop_send"
    /\ table.janitor = "run"
    /\ th[Sweeper].pc = "idle"
    /\ table' = [table EXCEPT !.janitor = "done"]
    /\ th' = Return(th, t, "ok")
    /\ UNCHANGED <<registry, nops, now, phase, mu, heap, irl, calls, addWins, stable>>

\* j.Run, case <-ticker.C: c.ExpirationCheck()
RunTick ==
    /\ table.janitor = "run"
    /\ CallExpirationCheck(Sweeper)

\* --------------------------------------------------------------- registry
\* A goroutine that has called mutex.Lock() and waits for it: no new reader is
\* let in meanwhile.
LockPending == \E u \in Workers : reg[u].pc = "lock"

\* New(name, ci) or Cache(name) is called: mutex.RLock()
RegistryCall(t, fn, name, ci) ==
    /\ reg[t].pc = "idle"
    /\ nops < MaxOps
    /\ mutex.writer = Unlocked
    /\ ~LockPending
    /\ nops' = nops + 1
    /\ mutex' = [mutex EXCEPT !.readers = @ \cup {t}]
    /\ reg' = [reg EXCEPT ![t] = [IdleCall EXCEPT !.pc = "rlocked", !.fn = fn,
                                                 !.name = name,
                                                 !.cleanupInterval = ci]]
    /\ UNCHANGED <<now, phase, table, mu, heap, irl, calls, th, addWins, stable,
                   cache, tables>>

\* t, ok := cache[table]; mutex.RUnlock(); if ok, return t
RegistryRead(t) ==
    /\ reg[t].pc = "rlocked"
    /\ mutex' = [mutex EXCEPT !.readers = @ \ {t}]
    /\ reg' = [reg EXCEPT ![t] =
                 IF cache[reg[t].name] # NoTable
                 THEN [@ EXCEPT !.pc = "idle", !.t = cache[reg[t].name],
                                !.ok = TRUE, !.ret = cache[reg[t].name]]
                 ELSE [@ EXCEPT !.pc = "lock"]]
    /\ UNCHANGED <<now, phase, table, mu, heap, irl, calls, th, nops, addWins,
                   stable, cache, tables>>

\* mutex.Lock()
RegistryLock(t) ==
    /\ reg[t].pc = "lock"
    /\ mutex.writer = Unlocked
    /\ mutex.readers = {}
    /\ mutex' = [mutex EXCEPT !.writer = t]
    /\ reg' = [reg EXCEPT ![t].pc = "locked"]
    /\ UNCHANGED <<now, phase, table, mu, heap, irl, calls, th, nops, addWins,
                   stable, cache, tables>>

\* the table that New or Cache makes: Cache gives it no cleanupInterval
MakeTable(c) ==
    [name |-> c.name,
     cleanupInterval |-> IF c.fn = "New" THEN c.cleanupInterval ELSE 0]

\* a New or Cache that makes its table without looking at the map again
RegistryCreateNoCheck(t) ==
    /\ reg[t].pc = "locked"
    /\ mutex' = [mutex EXCEPT !.writer = Unlocked]
    /\ tables' = Append(tables, MakeTable(reg[t]))
    /\ cache' = [cache EXCEPT ![reg[t].name] = Len(tables')]
    /\ reg' = [reg EXCEPT ![t] = [@ EXCEPT !.pc = "idle", !.t = Len(tables'),
                                          !.ret = Len(tables')]]
    /\ UNCHANGED <<now, phase, table, mu, heap, irl, calls, th, nops, addWins,
                   stable>>

\* t, ok = cache[table]; if !ok, make the table and store it; mutex.Unlock();
\* return t
RegistryCreate(t) ==
    /\ reg[t].pc = "locked"
    /\ mutex' = [mutex EXCEPT !.writer = Unlocked]
    /\ IF cache[reg[t].name] # NoTable
       THEN /\ reg' = [reg EXCEPT ![t] = [@ EXCEPT !.pc = "idle",
                                                  !.t = cache[reg[t].name],
                                                  !.ok = TRUE,
                                                  !.ret = cache[reg[t].name]]]
            /\ UNCHANGED <<cache, tables>>
       ELSE /\ tables' = Append(tables, MakeTable(reg[t]))
            /\ cache' = [cache EXCEPT ![reg[t].name] = Len(tables')]
            /\ reg' = [reg EXCEPT ![t] = [@ EXCEPT !.pc = "idle",
                                                  !.t = Len(tables'),
                                                  !.ret = Len(tables')]]
    /\ UNCHANGED <<now, phase, table, mu, heap, irl, calls, th, nops, addWins,
                   stable>>

\* ---------------------------------------------------------- specifications
\* Goroutines that Set, Delete and Get a table whose observers are registered
\* and whose keys all hold "a" when they start.
Next ==
    \/ New(1)
    \/ (table.addedItem = <<>> /\ AddAddedItemCallback(CbAdded))
    \/ (table.aboutToDeleteItem = <<>> /\ AddAboutToDeleteItemCallback(CbDelete))
    \/ (\E k \in Keys : Populate(k, 0, "a"))
    \/ (/\ Len(table.addedItem) = 1
        /\ Len(table.aboutToDeleteItem) = 1
        /\ \A k \in Keys : Present(k)
        /\ Start)
    \/ (\E t \in Workers, k \in Keys : CallSet(t, k, 0, "b"))
    \/ (\E t \in Workers, k \in Keys : CallDelete(t, k))
    \/ (\E t \in Workers, k \in Keys : CallGet(t, k))
    \/ (\E t \in Workers : SetLock(t))
    \/ (\E t \in Workers : AddedCallbackReturn(t))
    \/ (\E t \in Workers : DelCallbackReturn(t))
    \/ (\E t \in Workers : DelRLock(t))
    \/ (\E t \in Workers : DelRelock(t))
    \/ (\E t \in Workers : KaRequest(t))
    \/ (\E t \in Workers : KaAcquire(t))

Spec == Init /\ [][Next]_vars

\* Goroutines that Add to, and Get from, a table that may have an added observer.
NextAdd ==
    \/ New(0)
    \/ (table.addedItem = <<>> /\ AddAddedItemCallback(CbAdded))
    \/ Start
    \/ (\E t \in Workers, k \in Keys, d \in Datas : CallAdd(t, k, 0, d))
    \/ (\E t \in Workers, k \in Keys : CallGet(t, k))
    \/ (\E t \in Workers : AddedCallbackReturn(t))
    \/ (\E t \in Workers : KaRequest(t))
    \/ (\E t \in Workers : KaAcquire(t))

SpecAdd == Init /\ [][NextAdd]_vars

\* Goroutines that Get, through its loader, from a table that starts empty,
\* and ask whether its keys exist;
\* the loader returns ("a", 0, nil) or (nil, 2, err).
NextLoad ==
    \/ New(0)
    \/ SetDataLoader
    \/ EnableNullData(TRUE)
    \/ (table.addedItem = <<>> /\ AddAddedItemCallback(CbAdded))
    \/ (table.loadData /\ Start)
    \/ (\E t \in Workers, k \in Keys : CallGet(t, k))
    \/ (\E t \in Workers, k \in Keys : CallExists(t, k))
    \/ (\E t \in Workers : SfEnter(t))
    \/ (\E t \in Workers : LoaderReturn(t, "a", 0, FALSE))
    \/ (\E t \in Workers : LoaderReturn(t, NullData, 2, TRUE))
    \/ (\E t \in Workers : LdLock(t))
    \/ (\E t \in Workers : AddedCallbackReturn(t))
    \/ (\E t \in Workers : KaRequest(t))
    \/ (\E t \in Workers : KaAcquire(t))

SpecLoad == Init /\ [][NextLoad]_vars

\* Time passes over a table with no loader whose items have a lifeSpan of 2
\* while goroutines Get them, which keeps them alive, and one goroutine runs
\* expiration passes.
NextExpire ==
    \/ New(1)
    \/ (\E k \in Keys : Populate(k, 2, "a"))
    \/ Start
    \/ Tick
    \/ (\E t \in Workers, k \in Keys : CallGet(t, k))
    \/ CallExpirationCheck(Sweeper)
    \/ (\E t \in Workers : KaRequest(t))
    \/ (\E t \in Workers : KaAcquire(t))
    \/ (\E k \in Keys : SwNext(Sweeper, k))
    \/ SwDone(Sweeper)
    \/ SwSnap(Sweeper)
    \/ DelRLock(Sweeper)
    \/ DelRelock(Sweeper)

SpecExpire == Init /\ [][NextExpire]_vars

\* Time passes over a table with no loader while goroutines Set and Get and
\* keep items alive, and one goroutine runs expiration passes.
NextSweep ==
    \/ New(1)
    \/ (\E k \in Keys, span \in Spans : Populate(k, span, "a"))
    \/ Start
    \/ Tick
    \/ (\E t \in Workers, k \in Keys : CallSet(t, k, 0, "b"))
    \/ (\E t \in Workers, k \in Keys : CallGet(t, k))
    \/ (\E t \in Workers : CallKeepAlive(t))
    \/ CallExpirationCheck(Sweeper)
    \/ (\E t \in Workers : SetLock(t))
    \/ (\E t \in Workers : KaRequest(t))
    \/ (\E t \in Workers : KaAcquire(t))
    \/ (\E k \in Keys : SwNext(Sweeper, k))
    \/ SwDone(Sweeper)
    \/ SwSnap(Sweeper)
    \/ DelRLock(Sweeper)
    \/ DelRelock(Sweeper)

SpecSweep == Init /\ [][NextSweep]_vars

\* Goroutines that Get from and Flush a table with an about-to-delete observer
\* and put about-to-expire observers on the items they hold.
NextFlush ==
    \/ New(1)
    \/ (table.aboutToDeleteItem = <<>> /\ AddAboutToDeleteItemCallback(CbDelete))
    \/ (\E k \in Keys, span \in Spans : Populate(k, span, "a"))
    \/ (Len(table.aboutToDeleteItem) = 1 /\ Start)
    \/ (\E t \in Workers, k \in Keys : CallGet(t, k))
    \/ (\E t \in Workers : CallFlush(t))
    \/ (\E t \in Workers : /\ th[t].item # NoItem
                            /\ heap[th[t].item].aboutToExpire = <<>>
                            /\ AddAboutToExpireCallback(t, CbExpire))
    \/ (\E t \in Workers : KaRequest(t))
    \/ (\E t \in Workers : KaAcquire(t))

SpecFlush == Init /\ [][NextFlush]_vars

\* Goroutines that set the callbacks of a table that may have some already.
NextCallbacks ==
    \/ New(0)
    \/ (table.addedItem = <<>> /\ AddAddedItemCallback(CbAdded))
    \/ (table.aboutToDeleteItem = <<>> /\ AddAboutToDeleteItemCallback(CbDelete))
    \/ Start
    \/ (\E t \in Workers, name \in SetCallbackOps, f \in {CbAdded, CbDelete} :
            CallSetCallback(t, name, f))
    \/ (\E t \in Workers : SetCallbackRemove(t))
    \/ (\E t \in Workers : SetCallbackLock(t))

SpecCallbacks == Init /\ [][NextCallbacks]_vars

\* Goroutines that Set and Delete the keys of a table with MaxCallbacks added
\* and MaxCallbacks about-to-delete observers, registered in the order of
\* CallbackNames, and put about-to-expire observers on the items their Set
\* returned; they make one call fewer than MaxOps.
NextObservers ==
    \/ New(0)
    \/ (/\ Len(table.addedItem) < MaxCallbacks
        /\ AddAddedItemCallback(CallbackNames[Len(table.addedItem) + 1]))
    \/ (/\ Len(table.aboutToDeleteItem) < MaxCallbacks
        /\ AddAboutToDeleteItemCallback(CallbackNames[Len(table.aboutToDeleteItem) + 1]))
    \/ (/\ Len(table.addedItem) = MaxCallbacks
        /\ Len(table.aboutToDeleteItem) = MaxCallbacks
        /\ Start)
    \/ (\E t \in Workers, k \in Keys : nops + 1 < MaxOps /\ CallSet(t, k, 0, "b"))
    \/ (\E t \in Workers, k \in Keys : nops + 1 < MaxOps /\ CallDelete(t, k))
    \/ (\E t \in Workers :
            /\ th[t].op = "Set"
            /\ th[t].item # NoItem
            /\ Len(heap[th[t].item].aboutToExpire) < MaxCallbacks
            /\ AddAboutToExpireCallback(t,
                  CallbackNames[Len(heap[th[t].item].aboutToExpire) + 1]))
    \/ (\E t \in Workers : SetLock(t))
    \/ (\E t \in Workers : AddedCallbackReturn(t))
    \/ (\E t \in Workers : DelCallbackReturn(t))
    \/ (\E t \in Workers : DelRLock(t))
    \/ (\E t \in Workers : ExpCallbackReturn(t))
    \/ (\E t \in Workers : DelRelock(t))

SpecObservers == Init /\ [][NextObservers]_vars

\* Goroutines that call New and Cache with the names of Names.
NextRegistry ==
    \/ (\E t \in Workers, name \in Names, ci \in Intervals :
            RegistryCall(t, "New", name, ci))
    \/ (\E t \in Workers, name \in Names : RegistryCall(t, "Cache", name, 0))
    \/ (\E t \in Workers : RegistryRead(t))
    \/ (\E t \in Workers : RegistryLock(t))
    \/ (\E t \in Workers : RegistryCreate(t))

SpecRegistry == Init /\ [][NextRegistry]_vars

\* Goroutines that Get the keys that a table holds, while the first of them
\* also asks it for its most accessed items, for fewer than it can hold and for
\* more; they make one call fewer than MaxOps.
NextAccess ==
    \/ (\E t \in Workers, k \in ManyKeys :
            nops + 1 < MaxOps /\ Present(k) /\ CallGet(t, k))
    \/ (\E t \in Workers : KaRequest(t))
    \/ (\E t \in Workers : KaAcquire(t))
    \/ (\E count \in {NumKeys, NumKeys + 2} :
            nops + 1 < MaxOps /\ CallMostAccessed(1, count))
    \/ (\E t \in Workers : MostAccessedRange(t))
    \/ (\E t \in Workers : MostAccessedReturn(t))

SpecAccess == InitAccess /\ [][NextAccess]_vars

\* Time passes over a table, with or without a loader and with an
\* about-to-delete observer, whose items have a lifeSpan of 2, while the first
\* goroutine Gets the items that are there, leaving one of the MaxOps calls
\* to a pass, and one goroutine runs expiration passes; the loader returns ("b", 2, nil) or
\* (nil, 0, err).
NextRefresh ==
    \/ New(1)
    \/ SetDataLoader
    \/ (table.aboutToDeleteItem = <<>> /\ AddAboutToDeleteItemCallback(CbDelete))
    \/ (\E k \in Keys : Populate(k, 2, "a"))
    \/ (/\ Len(table.aboutToDeleteItem) = 1
        /\ \A k \in Keys : Present(k)
        /\ Start)
    \/ Tick
    \/ (\E k \in Keys : nops + 1 < MaxOps /\ Present(k) /\ CallGet(1, k))
    \/ CallExpirationCheck(Sweeper)
    \/ KaRequest(1)
    \/ KaAcquire(1)
    \/ (\E k \in Keys : SwNext(Sweeper, k))
    \/ SwDone(Sweeper)
    \/ SwSnap(Sweeper)
    \/ SwLoaderReturn(Sweeper, "b", 2, FALSE)
    \/ SwLoaderReturn(Sweeper, NullData, 0, TRUE)
    \/ DelCallbackReturn(Sweeper)
    \/ DelRLock(Sweeper)
    \/ DelRelock(Sweeper)

SpecRefresh == Init /\ [][NextRefresh]_vars

\* The steps that goroutine t takes inside a Get, a Delete or a pass once it
\* has called it.
Step(t) ==
    \/ KaRequest(t)
    \/ KaAcquire(t)
    \/ DelRLock(t)
    \/ DelRelock(t)
    \/ (\E k \in Keys : SwNext(t, k))
    \/ SwDone(t)
    \/ SwSnap(t)

\* Goroutines that Get and Delete the items of a table with no loader and no
\* observer while one goroutine runs expiration passes.
NextLive ==
    \/ New(1)
    \/ (\E k \in Keys, span \in Spans : Populate(k, span, "a"))
    \/ ((\A k \in Keys : Present(k)) /\ Start)
    \/ (\E t \in Workers, k \in Keys : CallGet(t, k))
    \/ (\E t \in Workers, k \in Keys : CallDelete(t, k))
    \/ CallExpirationCheck(Sweeper)
    \/ (\E t \in Threads : Step(t))

\* The scheduler lets every goroutine that can take a step take one in the end.
SpecLive == Init /\ [][NextLive]_vars /\ \A t \in Threads : WF_vars(Step(t))

\* Goroutines that stop the janitor of a table that has one, or has none, while
\* the janitor runs its passes.
NextJanitor ==
    \/ New(1)
    \/ runJanitor
    \/ (\E k \in Keys, span \in Spans : Populate(k, span, "a"))
    \/ Start
    \/ Tick
    \/ (\E t \in Workers : stopJanitor(t))
    \/ (\E t \in Workers : RunStop(t))
    \/ RunTick
    \/ (\E k \in Keys : SwNext(Sweeper, k))
    \/ SwDone(Sweeper)
    \/ SwSnap(Sweeper)
    \/ DelRLock(Sweeper)
    \/ DelRelock(Sweeper)

SpecJanitor == Init /\ [][NextJanitor]_vars

\* ------------------------------------------------------------------ claims
InCallback(t) == th[t].pc \in {"added_cb", "del_cb", "exp_cb"}

\* C1: no added, about-to-delete or about-to-expire observer runs on a
\* goroutine that holds the table's write lock.
C1_NoCallbackUnderLock == \A t \in Threads : InCallback(t) => mu # t

\* C2: of the Add calls on a key that was absent exactly one returns true, the
\* others return false, and the entry stored afterwards is the winner's.
C2_OneAddWins ==
    \A k \in Keys :
        LET done == {t \in Workers : th[t].op = "Add" /\ th[t].key = k /\ th[t].pc = "idle"}
        IN /\ addWins[k] <= 1
           /\ done # {} =>
                /\ addWins[k] = 1
                /\ Present(k)
                /\ \A t \in done : th[t].ret \in {"true", "false"}
                /\ Cardinality({t \in done : th[t].ret = "true"}) <= 1
                /\ \A t \in done : th[t].ret = "true" => table.items[k] = th[t].item

\* two goroutines have added to the same key: one won, one lost
C2_Witness ==
    \E t \in Workers, u \in Workers :
        /\ th[t].op = "Add" /\ th[t].pc = "idle" /\ th[t].ret = "true"
        /\ th[u].op = "Add" /\ th[u].pc = "idle" /\ th[u].ret = "false"
        /\ th[t].key = th[u].key
        /\ table.items[th[t].key] = th[t].item

\* C3: a Get called after a Set has committed v, with no Delete or admission
\* of the key started since and the entry not expired, returns an entry whose
\* value is v.
C3_GetAfterSet ==
    \A t \in Workers :
        (th[t].op = "Get" /\ th[t].pc = "idle" /\ th[t].exp # "none") =>
            /\ th[t].ret = "ok"
            /\ th[t].item # NoItem
            /\ heap[th[t].item].data = th[t].exp

\* C4: an expiration pass never removes a key whose stored entry has
\* lifeSpan 0.
C4_LastingKeyIsKept ==
    [][\A t \in Threads :
          (DelRelock(t) /\ th[t].op = "ExpirationCheck" /\ Present(th[t].key)) =>
              heap[table.items[th[t].key]].lifeSpan # 0]_vars

\* the goroutines inside Get's closure for key k: its loader is running, or
\* has returned and the closure admits the item
Loading(k) ==
    {t \in Threads : th[t].op = "Get" /\ th[t].key = k
                     /\ th[t].pc \in {"loading", "ld_lock", "added_cb"}}

\* C5: of the Get calls that miss the same key together, one at a time runs
\* the loader, and when it is done the calls that waited for it return what it
\* returns: the same entry, or the same error.
C5_OneLoadPerFlight ==
    /\ [](\A k \in Keys : /\ Cardinality(Loading(k)) <= 1
                          /\ calls[k] <=> Loading(k) # {})
    /\ [][\A t \in Threads :
            (t \in Loading(th[t].key) /\ th'[t].pc = "idle") =>
                \A w \in Threads :
                    (th[w].pc = "sf_wait" /\ th[w].key = th[t].key) =>
                        /\ th'[w].pc = "idle"
                        /\ th'[w].ret = th'[t].ret
                        /\ th'[w].item = th'[t].item]_vars
    /\ [][\A w \in Threads :
            (th[w].pc = "sf_wait" /\ th'[w].pc # "sf_wait") =>
                \E t \in Loading(th[w].key) : th'[t].pc = "idle"]_vars

\* two Get calls missed the same key; one loaded, the other waited, and both
\* hold the entry that was loaded
C5_Witness ==
    \E t \in Workers, u \in Workers :
        /\ t # u
        /\ th[t].op = "Get" /\ th[t].pc = "idle" /\ th[t].ret = "ok"
        /\ th[u].op = "Get" /\ th[u].pc = "idle" /\ th[u].ret = "ok"
        /\ th[t].key = th[u].key
        /\ th[t].item # NoItem
        /\ th[t].item = th[u].item
        /\ heap[th[t].item].accessCount = 0

\* C6: a table made by New with cleanupInterval > 0 has a janitor that runs
\* the expiration pass on that interval.
C6_JanitorRuns ==
    (phase # "init" /\ table.cleanupInterval > 0) => table.janitor # "none"

C8_RemovedAfterIdle ==
    \A t \in Threads :
        (th[t].op = "ExpirationCheck" /\ th[t].pc \in {"del_rlock", "del_relock"}) =>
            th[t].snow - th[t].sacc >= th[t].span

\* C9: Get with no loader, and Delete, of a key that is not there return
\* ErrKeyNotFound, run no callback and leave the table as it was; the key is
\* not there when a Delete of it has returned.
C9_AbsentKey ==
    /\ [][\A t \in Threads, k \in Keys :
            (~Present(k) /\ (CallDelete(t, k) \/ (~table.loadData /\ CallGet(t, k)))) =>
                /\ th'[t].pc = "idle"
                /\ th'[t].ret = ErrKeyNotFound
                /\ th'[t].fired = <<>>
                /\ th'[t].item = NoItem
                /\ table' = table
                /\ mu' = mu]_vars
    /\ [][\A t \in Threads :
            (DelRelock(t) /\ th[t].op = "Delete") =>
                /\ th'[t].pc = "idle"
                /\ table'.items[th[t].key] = NoItem]_vars

\* a Delete has removed the key, and a Delete after it found nothing
C9_Witness ==
    \E t \in Workers, u \in Workers :
        /\ th[t].op = "Delete" /\ th[t].pc = "idle" /\ th[t].ret = "ok"
        /\ th[u].op = "Delete" /\ th[u].pc = "idle" /\ th[u].ret = ErrKeyNotFound
        /\ th[t].key = th[u].key
        /\ th[u].fired = <<>>
        /\ ~Present(th[u].key)

\* C10: when the loader fails and enableNullData is off, Get returns the
\* loader's error, no item is admitted and no added callback runs.
C10_LoadError ==
    [][\A t \in Threads, span \in Spans :
          (~table.enableNullData /\ LoaderReturn(t, NullData, span, TRUE)) =>
              /\ th'[t].pc = "idle"
              /\ th'[t].ret = LoadErr
              /\ th'[t].item = NoItem
              /\ th'[t].fired = <<>>
              /\ table' = table
              /\ heap' = heap]_vars

\* a Get whose loader failed has returned, the key still absent, with an added
\* observer registered
C10_Witness ==
    \E t \in Workers :
        /\ th[t].op = "Get" /\ th[t].pc = "idle" /\ th[t].ret = LoadErr
        /\ th[t].fired = <<>>
        /\ ~Present(th[t].key)
        /\ ~table.enableNullData
        /\ Len(table.addedItem) = 1

C12_AddKeepsFirst ==
    /\ [][\A t \in Threads, k \in Keys, span \in Spans, d \in Datas :
            (Present(k) /\ th'[t].op = "Add" /\ nops' = nops + 1
               /\ CallAdd(t, k, span, d)) =>
                /\ th'[t].pc = "idle"
                /\ th'[t].ret = "false"
                /\ th'[t].fired = <<>>
                /\ table' = table
                /\ heap'[table.items[k]] = heap[table.items[k]]
                /\ mu' = mu
                /\ addWins' = addWins]_vars
    /\ [](\A t \in Workers :
            (th[t].op = "Get" /\ th[t].pc = "idle" /\ th[t].exp # "none") =>
                /\ th[t].ret = "ok"
                /\ table.items[th[t].key] = th[t].item
                /\ heap[th[t].item].data = th[t].exp)

\* an Add has lost to the entry that was there, and a Get after it returned
\* that entry
C12_Witness ==
    \E t \in Workers, u \in Workers :
        /\ th[u].op = "Add" /\ th[u].pc = "idle" /\ th[u].ret = "false"
        /\ th[t].op = "Get" /\ th[t].pc = "idle" /\ th[t].ret = "ok"
        /\ th[t].key = th[u].key
        /\ th[t].exp # "none"
        /\ heap[th[t].item].data = th[t].exp
        /\ addWins[th[t].key] = 1

\* t's Get returns, in this step, the item it found in the table
HitReturns(t) ==
    \/ KaAcquire(t) /\ th[t].op = "Get"
    \/ \E k \in Keys : CallGet(t, k) /\ th'[t].pc = "idle" /\ th'[t].ret = "ok"

C14_ExistsOnlyReads ==
    [][\A t \in Threads, k \in Keys :
          CallExists(t, k) =>
              /\ th'[t].pc = "idle"
              /\ th'[t].ret = (IF table.items[k] # NoItem THEN "true" ELSE "false")
              /\ th'[t].fired = <<>>
              /\ table' = table
              /\ calls' = calls
              /\ mu' = mu
              /\ \A u \in Threads \ {t} : th'[u] = th[u]
              /\ \A i \in ItemIds : heap'[i].key # 0 => heap'[i] = heap[i]
              /\ \A j \in Keys : Present(j) => heap'[table.items[j]] = heap[table.items[j]]]_vars

\* with a loader configured, an Exists has said no to a key that is not there
\* and an Exists has said yes to a key whose item was never accessed
C14_Witness ==
    \E t \in Workers, u \in Workers :
        /\ table.loadData
        /\ th[t].op = "Exists" /\ th[t].pc = "idle" /\ th[t].ret = "false"
        /\ th[u].op = "Exists" /\ th[u].pc = "idle" /\ th[u].ret = "true"
        /\ Present(th[u].key)
        /\ heap[table.items[th[u].key]].accessCount = 0

\* C15: Flush leaves no item in the table and cleanupInterval 0, runs no
\* callback, and changes neither the loader, the callback registries nor any
\* item; a Get of a key that is not there, with no loader, returns
\* ErrKeyNotFound.
C15_FlushEmpties ==
    /\ [][\A t \in Threads :
            CallFlush(t) =>
                /\ Count' = 0
                /\ table'.cleanupInterval = 0
                /\ th'[t].pc = "idle"
                /\ th'[t].fired = <<>>
                /\ \A u \in Threads \ {t} : th'[u].fired = th[u].fired /\ th'[u].pc = th[u].pc
                /\ table'.addedItem = table.addedItem
                /\ table'.aboutToDeleteItem = table.aboutToDeleteItem
                /\ table'.loadData = table.loadData
                /\ table'.enableAutoLoad = table.enableAutoLoad
                /\ table'.enableNullData = table.enableNullData
                /\ mu' = mu
                /\ \A i \in ItemIds : heap'[i].key # 0 => heap'[i] = heap[i]]_vars
    /\ [][\A t \in Threads, k \in Keys :
            (~Present(k) /\ ~table.loadData /\ CallGet(t, k)) =>
                /\ th'[t].pc = "idle"
                /\ th'[t].ret = ErrKeyNotFound
                /\ th'[t].item = NoItem]_vars

\* a Flush has emptied a table with an about-to-delete observer, and the item
\* it dropped, which a goroutine still holds, has an about-to-expire observer
C15_Witness ==
    \E t \in Workers, u \in Workers :
        /\ th[t].op = "Flush" /\ th[t].pc = "idle" /\ th[t].fired = <<>>
        /\ th[u].op = "Get" /\ th[u].pc = "idle" /\ th[u].ret = "ok"
        /\ th[u].fired = <<>>
        /\ th[u].item # NoItem
        /\ heap[th[u].item].aboutToExpire # <<>>
        /\ Count = 0
        /\ table.cleanupInterval = 0
        /\ Len(table.aboutToDeleteItem) = 1

\* C16: when SetAddedItemCallback or SetAboutToDeleteItemCallback returns, its
\* registry holds exactly one callback.
C16_SetLeavesOne ==
    [][\A t \in Threads :
          SetCallbackLock(t) => Len(table'[Registry(th[t].op)]) = 1]_vars

\* the calls that a run through a registry makes: each callback once, in the
\* registry's order, with the same argument
Fired(kind, cbs, arg) == [i \in 1..Len(cbs) |-> <<kind, cbs[i], arg>>]

\* C17: an admission calls every added callback once, in registration order,
\* with the admitted item; a deletion calls every about-to-delete callback
\* once, in registration order, with the item, and then the item's
\* about-to-expire callbacks once each, in registration order, with the key.
C17_ObserversInOrder ==
    /\ [][\A t \in Threads :
            ((SetLock(t) \/ AddedCallbackReturn(t)) /\ th'[t].pc = "idle") =>
                /\ th'[t].item # NoItem
                /\ th'[t].fired = Fired("added", table.addedItem, th'[t].item)]_vars
    /\ [][\A t \in Threads :
            (DelRelock(t) /\ th[t].op = "Delete") =>
                th'[t].fired = Fired("delete", table.aboutToDeleteItem, th[t].item)
                               \o Fired("expire", heap[th[t].item].aboutToExpire, th[t].key)]_vars

\* a Set has run the added callbacks and a Delete has run the about-to-delete
\* callbacks and then the item's about-to-expire callbacks, MaxCallbacks each
C17_Witness ==
    \E t \in Workers, u \in Workers :
        /\ th[t].op = "Set" /\ th[t].pc = "idle"
        /\ Len(th[t].fired) = MaxCallbacks
        /\ th[u].op = "Delete" /\ th[u].pc = "idle" /\ th[u].ret = "ok"
        /\ Len(th[u].fired) = MaxCallbacks + MaxCallbacks
        /\ th[u].fired[1][2] = CallbackNames[1]
        /\ th[u].fired[MaxCallbacks][2] = CallbackNames[MaxCallbacks]

\* C18: New and Cache make at most one table per name, every call returns the
\* table that the map holds for its name, and tables of different names differ.
C18_OneTablePerName ==
    /\ \A i \in 1..Len(tables), j \in 1..Len(tables) :
           tables[i].name = tables[j].name => i = j
    /\ \A n \in Names : cache[n] # NoTable => tables[cache[n]].name = n
    /\ \A t \in Workers :
           (reg[t].pc = "idle" /\ reg[t].fn # "none") =>
               /\ reg[t].ret # NoTable
               /\ reg[t].ret = cache[reg[t].name]
    /\ \A t \in Workers, u \in Workers :
           (/\ reg[t].pc = "idle" /\ reg[t].fn # "none"
            /\ reg[u].pc = "idle" /\ reg[u].fn # "none") =>
               (reg[t].ret = reg[u].ret <=> reg[t].name = reg[u].name)

\* two goroutines missed the same name together: one has made the table and
\* returned it, the other holds the lock and is about to look again
C18_Witness ==
    \E t \in Workers, u \in Workers :
        /\ t # u
        /\ reg[t].pc = "idle" /\ reg[t].fn = "New" /\ ~reg[t].ok
        /\ reg[u].pc = "locked" /\ reg[u].name = reg[t].name
        /\ reg[t].ret = cache[reg[t].name]
        /\ Len(tables) = 1

\* the accessCount that a MostAccessed call read for the item id
PairCount(p, id) ==
    LET i == CHOOSE i \in 1..Len(p) : table.items[p[i].Key] = id
    IN p[i].AccessCount

\* C19: MostAccessed(count) returns min(count, Count) different items of the
\* table, in non-increasing order of the accessCount it read for each, which is
\* the order of their accessCount when no Get ran meanwhile; no step of it
\* changes the accessCount or the accessedOn of an item of the table.
C19_MostAccessed ==
    /\ [][\A t \in Threads :
            MostAccessedReturn(t) =>
              LET r == th'[t].r
                  p == th[t].p
              IN /\ Len(r) = (IF th[t].count < Count THEN th[t].count ELSE Count)
                 /\ \A i \in 1..Len(r) :
                        \E k \in DOMAIN table.items : table.items[k] = r[i]
                 /\ \A i \in 1..Len(r), j \in 1..Len(r) :
                        i < j => /\ r[i] # r[j]
                                 /\ PairCount(p, r[i]) >= PairCount(p, r[j])
                 /\ (\A i \in 1..Len(p) :
                        p[i].AccessCount = heap[table.items[p[i].Key]].accessCount)
                    => \A i \in 1..Len(r), j \in 1..Len(r) :
                          i < j => heap'[r[i]].accessCount >= heap'[r[j]].accessCount]_vars
    /\ [][\A t \in Threads :
            (th'[t] # th[t] /\ th'[t].op = "MostAccessed") =>
              \A k \in DOMAIN table.items :
                  table.items[k] # NoItem =>
                      /\ heap'[table.items[k]].accessCount
                           = heap[table.items[k]].accessCount
                      /\ heap'[table.items[k]].accessedOn
                           = heap[table.items[k]].accessedOn]_vars

\* a MostAccessed was asked for fewer items than the table holds and returned
\* that many, the most accessed first
C19_Witness ==
    \E t \in Workers :
        /\ th[t].op = "MostAccessed" /\ th[t].pc = "idle"
        /\ Len(th[t].r) = NumKeys
        /\ Count = NumKeys + 1
        /\ \E k \in DOMAIN table.items :
             /\ table.items[k] # NoItem
             /\ \A i \in 1..Len(th[t].r) :
                  heap[th[t].r[i]].accessCount > heap[table.items[k]].accessCount

\* C20: while an about-to-delete or about-to-expire callback of a deletion of
\* key k runs, k is in the table.
C20_PresentDuringObservers ==
    \A t \in Threads : th[t].pc \in {"del_cb", "exp_cb"} => Present(th[t].key)

\* the pass of t has begun to delete its key through deleteInternal: the
\* about-to-delete callbacks run first, with the item
Deleting(t) ==
    /\ th'[t].pc = "del_cb"
    /\ th'[t].key = th[t].key
    /\ th'[t].fired = Append(th[t].fired,
                             <<"delete", table.aboutToDeleteItem[1], table.items[th[t].key]>>)
    /\ table' = table

C22_PassOverSnapshot ==
    /\ [][\A t \in Threads, k \in Keys : SwNext(t, k) => k \in th[t].entry]_vars
    /\ [][\A t \in Threads :
            (DelRelock(t) /\ th[t].op = "ExpirationCheck") =>
                table.items[th[t].key] = th[t].item]_vars

\* C23: of the deletions of one item one returns it, and each about-to-delete
\* and each about-to-expire callback is called once for it.
C23_OneDeleteWins ==
    \A t \in Threads, u \in Threads :
        t # u =>
            /\ ~(/\ th[t].op = "Delete" /\ th[t].pc = "idle" /\ th[t].ret = "ok"
                 /\ th[u].op = "Delete" /\ th[u].pc = "idle" /\ th[u].ret = "ok"
                 /\ th[t].item # NoItem
                 /\ th[t].item = th[u].item)
            /\ \A i \in 1..Len(th[t].fired), j \in 1..Len(th[u].fired) :
                   (th[t].fired[i][1] \in {"delete", "expire"} /\ th[t].item = th[u].item)
                       => th[t].fired[i] # th[u].fired[j]

\* C24: a Get that missed key k and reaches the single-flight gate when an
\* earlier flight has admitted k's item from a loader that succeeded, an item
\* that does not expire, does not call the loader, and no flight replaces the
\* item.
C24_OneLoadPerKey ==
    /\ [][\A t \in Threads :
            (/\ SfEnter(t)
             /\ Present(th[t].key)
             /\ heap[table.items[th[t].key]].data # NullData
             /\ heap[table.items[th[t].key]].lifeSpan = 0) =>
                th'[t].pc # "loading"]_vars
    /\ [][\A t \in Threads :
            (/\ LdLock(t)
             /\ Present(th[t].key)
             /\ heap[table.items[th[t].key]].data # NullData
             /\ heap[table.items[th[t].key]].lifeSpan = 0) =>
                table'.items[th[t].key] = table.items[th[t].key]]_vars

\* C25: every call that a goroutine has made returns in the end.
C25_EveryCallReturns ==
    \A t \in Threads : (th[t].pc # "idle") ~> (th[t].pc = "idle")

\* C26: a stop request on a table with no janitor does not fail, and a stop
\* request made after the janitor has stopped is not left waiting.
C26_StopIsIdempotent ==
    \A t \in Threads :
        /\ ~(th[t].op = "stopJanitor" /\ th[t].ret = "panic")
        /\ ~(th[t].pc = "stop_send" /\ table.janitor = "done")

====
